---- MODULE Spec2Model ----
(***************************************************************************)
(* A model of tidy: the word-list pipeline of src/lib.rs (tidy_list and    *)
(* its helpers) and the control flow of main in src/main.rs (validations,  *)
(* whittle-target parsing, the whittle loop, printing).                     *)
(*                                                                         *)
(* A String is a sequence of code points; a Vec<String> is a sequence of   *)
(* such sequences.  Option<T> is a sequence of length 0 (None) or 1 (Some).*)
(*                                                                         *)
(* Specifications:                                                         *)
(*   Spec      main, from Args::parse() to its exit                        *)
(*   FairSpec  Spec, with main taking every step it can take               *)
(*   SpecTidy  tidy_list on a drawn list and option set, then on its output *)
(*   SpecTab   remove_through_first_tab on a drawn line                    *)
(*   SpecWhittle  main from the whittle-target parsing on, on longer lists *)
(*   SpecRemoval  remove_prefix_words and remove_by_position on drawn      *)
(*                arguments                                                *)
(***************************************************************************)
EXTENDS Integers, Sequences, FiniteSets, TLC

VARIABLES
    pc,                               \* position of the run in main (or in the call)
    list,                             \* the inputted word list (lines of the input files)
    to_lowercase,
    should_remove_prefix_words,
    should_remove_integers,
    should_remove_through_first_tab,
    reject_list,                      \* Option<Vec<String>>
    sort_alphabetically,              \* TidyRequest.sort_alphabetically = !no_alpha_sort
    take_first,                       \* this_tidy_request.take_first : Option<usize>
    length_to_whittle_to,             \* Option<usize>
    our_starting_point,               \* Option<usize>
    this_list_length,
    tidied_list,                      \* the list the last tidy_list call returned
    previous_list,                    \* the list the call before that returned
    tidy_calls,                       \* 0, 1 or 2 (2 = more than one) tidy_list calls so far
    exit_code,                        \* Option<int>: the process's exit status
    outcome,                          \* which path ended the run
    printed,                          \* Option<Vec<String>>: the list written to file/stdout
    line,                             \* input of remove_through_first_tab
    line_out,                         \* Option<String>: its result
    positions                         \* Vec<usize>: positions_to_remove of remove_by_position

vars == << pc, list, to_lowercase, should_remove_prefix_words, should_remove_integers,
           should_remove_through_first_tab, reject_list, sort_alphabetically, take_first,
           length_to_whittle_to, our_starting_point, this_list_length, tidied_list,
           previous_list, tidy_calls, exit_code, outcome, printed, line, line_out,
           positions >>

-----------------------------------------------------------------------------
(* Bounds of the model *)

MaxListLen == 2
MaxRejectLen == 1
MaxInputLen == 3
MaxTabWordLen == 4
MaxWhittleLen == 4
MaxRemovalLen == 3
MaxPositions == 2

-----------------------------------------------------------------------------
(* Characters: code points *)

Chr == [tab |-> 9, sp |-> 32, d1 |-> 49, A |-> 65, a |-> 97, b |-> 98]

None == << >>
Some(x) == << x >>
IsSome(o) == Len(o) = 1
Unwrap(o) == o[1]

\* char::is_numeric, on the ASCII range
IsNumeric(c) == c \in 48..57

\* char::is_whitespace (White_Space), on the ASCII range
IsWhitespace(c) == c \in {9, 10, 11, 12, 13, 32}

\* u8::to_ascii_lowercase
CharToAsciiLowercase(c) == IF c \in 65..90 THEN c + 32 ELSE c

\* str::to_ascii_lowercase
RECURSIVE to_ascii_lowercase(_)
to_ascii_lowercase(w) ==
    IF w = << >> THEN << >>
    ELSE << CharToAsciiLowercase(Head(w)) >> \o to_ascii_lowercase(Tail(w))

\* Ord for String: lexicographic on code points, a proper prefix first
RECURSIVE StrLess(_, _)
StrLess(u, v) ==
    IF v = << >> THEN FALSE
    ELSE IF u = << >> THEN TRUE
    ELSE IF Head(u) # Head(v) THEN Head(u) < Head(v)
    ELSE StrLess(Tail(u), Tail(v))

\* str::starts_with
starts_with(word, prefix) ==
    /\ Len(prefix) <= Len(word)
    /\ SubSeq(word, 1, Len(prefix)) = prefix

\* str::trim_start
RECURSIVE trim_start(_)
trim_start(w) ==
    IF w # << >> /\ IsWhitespace(Head(w)) THEN trim_start(Tail(w)) ELSE w

\* str::trim_end
RECURSIVE trim_end(_)
trim_end(w) ==
    IF w # << >> /\ IsWhitespace(w[Len(w)]) THEN trim_end(SubSeq(w, 1, Len(w) - 1)) ELSE w

\* l.contains("\t")
ContainsTab(l) == \E i \in 1..Len(l) : l[i] = Chr.tab

\* l.split("\t").collect::<Vec<&str>>()
RECURSIVE SplitOnTab(_, _)
SplitOnTab(l, field) ==
    IF l = << >> THEN << field >>
    ELSE IF Head(l) = Chr.tab THEN << field >> \o SplitOnTab(Tail(l), << >>)
    ELSE SplitOnTab(Tail(l), Append(field, Head(l)))

-----------------------------------------------------------------------------
(* src/lib.rs *)

\* w.retain(|c| !c.is_numeric())
RECURSIVE remove_integers(_)
remove_integers(w) ==
    IF w = << >> THEN << >>
    ELSE IF ~IsNumeric(Head(w)) THEN << Head(w) >> \o remove_integers(Tail(w))
    ELSE remove_integers(Tail(w))

\* l.split("\t")...[1]: the field between the first tab and the second one
remove_through_first_tab(l) ==
    IF ContainsTab(l) THEN SplitOnTab(l, << >>)[2] ELSE l

\* remove_blank_lines without the retain: blank entries stay
remove_blank_lines_keeping_blanks(lst) == lst

\* new_list.retain(|x| !x.is_empty())
RECURSIVE remove_blank_lines(_)
remove_blank_lines(lst) ==
    IF lst = << >> THEN << >>
    ELSE IF Head(lst) # << >> THEN << Head(lst) >> \o remove_blank_lines(Tail(lst))
    ELSE remove_blank_lines(Tail(lst))

\* list.iter().map(|w| w.trim_start().trim_end().to_string()).collect()
RECURSIVE trim_whitespace(_)
trim_whitespace(lst) ==
    IF lst = << >> THEN << >>
    ELSE << trim_end(trim_start(Head(lst))) >> \o trim_whitespace(Tail(lst))

\* Vec::sort: insertion into the sorted tail gives the one sorted permutation
RECURSIVE InsertSorted(_, _)
InsertSorted(w, s) ==
    IF s = << >> THEN << w >>
    ELSE IF StrLess(Head(s), w) THEN << Head(s) >> \o InsertSorted(w, Tail(s))
    ELSE << w >> \o s

RECURSIVE Sort(_)
Sort(s) == IF s = << >> THEN << >> ELSE InsertSorted(Head(s), Sort(Tail(s)))

\* Vec::dedup: removes consecutive repeated elements
RECURSIVE Dedup(_)
Dedup(s) ==
    IF Len(s) < 2 THEN s
    ELSE IF s[1] = s[2] THEN Dedup(Tail(s))
    ELSE << Head(s) >> \o Dedup(Tail(s))

\* sort_and_dedup without list.sort(): only consecutive repeats collapse
sort_and_dedup_unsorted(lst) == Dedup(lst)

sort_and_dedup(lst) == Dedup(Sort(lst))

\* Vec<usize>::contains
Contains(s, x) == \E i \in 1..Len(s) : s[i] = x

\* positions are 0-based, as in the code
RECURSIVE RemoveByPositionFrom(_, _, _)
RemoveByPositionFrom(positions_to_remove, lst, i) ==
    IF lst = << >> THEN << >>
    ELSE IF ~Contains(positions_to_remove, i)
         THEN << Head(lst) >> \o RemoveByPositionFrom(positions_to_remove, Tail(lst), i + 1)
         ELSE RemoveByPositionFrom(positions_to_remove, Tail(lst), i + 1)

\* remove_by_position reading its positions as 1-based
remove_by_position_one_based(positions_to_remove, lst) ==
    RemoveByPositionFrom(positions_to_remove, lst, 1)

remove_by_position(positions_to_remove, lst) ==
    RemoveByPositionFrom(positions_to_remove, lst, 0)

\* the inner loop without `word != potential_prefix_word`: a word counts as
\* a prefix of itself
RECURSIVE PrefixPushes_counting_itself(_, _, _)
PrefixPushes_counting_itself(i, potential_prefix_word, words) ==
    IF words = << >> THEN << >>
    ELSE (IF starts_with(Head(words), potential_prefix_word)
          THEN << i >> ELSE << >>)
         \o PrefixPushes_counting_itself(i, potential_prefix_word, Tail(words))

\* the inner loop with the test also taken the other way round: a word is
\* marked when it is the prefix or the longer word of a pair
RECURSIVE PrefixPushes_either_side(_, _, _)
PrefixPushes_either_side(i, potential_prefix_word, words) ==
    IF words = << >> THEN << >>
    ELSE (IF (\/ starts_with(Head(words), potential_prefix_word)
              \/ starts_with(potential_prefix_word, Head(words)))
             /\ Head(words) # potential_prefix_word
          THEN << i >> ELSE << >>)
         \o PrefixPushes_either_side(i, potential_prefix_word, Tail(words))

\* the inner loop of find_prefix_words_to_remove: one push of i per longer word
RECURSIVE PrefixPushes(_, _, _)
PrefixPushes(i, potential_prefix_word, words) ==
    IF words = << >> THEN << >>
    ELSE (IF starts_with(Head(words), potential_prefix_word)
             /\ Head(words) # potential_prefix_word
          THEN << i >> ELSE << >>)
         \o PrefixPushes(i, potential_prefix_word, Tail(words))

RECURSIVE FindPrefixFrom(_, _)
FindPrefixFrom(lst, i) ==
    IF i >= Len(lst) THEN << >>
    ELSE PrefixPushes(i, lst[i + 1], lst) \o FindPrefixFrom(lst, i + 1)

\* find_prefix_words_to_remove with the outer loop starting one entry late
find_prefix_words_to_remove_skipping_first(lst) == FindPrefixFrom(lst, 1)

find_prefix_words_to_remove(lst) == FindPrefixFrom(lst, 0)

remove_prefix_words(lst) ==
    remove_by_position(find_prefix_words_to_remove(lst), lst)

\* list.iter().position(|w| w == reject_word)
Position(lst, reject_word) ==
    IF \E i \in 1..Len(lst) : lst[i] = reject_word
    THEN Some((CHOOSE i \in 1..Len(lst) :
                  /\ lst[i] = reject_word
                  /\ \A j \in 1..(i - 1) : lst[j] # reject_word) - 1)
    ELSE None

RECURSIVE find_reject_words_to_remove(_, _)
find_reject_words_to_remove(lst, rejects) ==
    IF rejects = << >> THEN << >>
    ELSE Position(lst, Head(rejects)) \o find_reject_words_to_remove(lst, Tail(rejects))

remove_reject_words(lst, rejects) ==
    remove_by_position(find_reject_words_to_remove(lst, rejects), lst)

\* list.iter().map(|w| remove_through_first_tab(w.to_string())).collect()
RECURSIVE MapRemoveThroughFirstTab(_)
MapRemoveThroughFirstTab(lst) ==
    IF lst = << >> THEN << >>
    ELSE << remove_through_first_tab(Head(lst)) >> \o MapRemoveThroughFirstTab(Tail(lst))

\* tidied_list.iter().map(|w| remove_integers(w.to_string())).collect()
RECURSIVE MapRemoveIntegers(_)
MapRemoveIntegers(lst) ==
    IF lst = << >> THEN << >>
    ELSE << remove_integers(Head(lst)) >> \o MapRemoveIntegers(Tail(lst))

\* tidied_list.iter().map(|w| w.to_ascii_lowercase()).collect()
RECURSIVE MapToAsciiLowercase(_)
MapToAsciiLowercase(lst) ==
    IF lst = << >> THEN << >>
    ELSE << to_ascii_lowercase(Head(lst)) >> \o MapToAsciiLowercase(Tail(lst))

\* the element of a one-element set
Only(S) == CHOOSE x \in S : TRUE

\* l1 .. l8 are the successive values of tidied_list, each computed once from
\* the one before; read from the innermost line (l1) up to the result.
tidy_list(lst, lower, prefix, integers, through_tab, rejects) ==
    Only({ sort_and_dedup(l8) :
      l8 \in { IF prefix THEN remove_prefix_words(sort_and_dedup(l7)) ELSE l7 :
      l7 \in { IF IsSome(rejects) THEN remove_reject_words(l6, Unwrap(rejects)) ELSE l6 :
      l6 \in { IF lower THEN MapToAsciiLowercase(l5) ELSE l5 :
      l5 \in { sort_and_dedup(l4) :
      l4 \in { remove_blank_lines(l3) :
      l3 \in { trim_whitespace(l2) :
      l2 \in { IF integers THEN MapRemoveIntegers(l1) ELSE l1 :
      l1 \in { IF through_tab THEN MapRemoveThroughFirstTab(lst) ELSE lst } } } } } } } } })

-----------------------------------------------------------------------------
(* What the model leaves alone in a step *)

SeqsUpTo(S, n) == UNION { [1..k -> S] : k \in 0..n }

options == << to_lowercase, should_remove_prefix_words, should_remove_integers,
              should_remove_through_first_tab, reject_list, sort_alphabetically >>

whittle_state == << length_to_whittle_to, our_starting_point, this_list_length >>

\* the arguments and results of the helper functions called on their own
tab_state == << line, line_out, positions >>

-----------------------------------------------------------------------------
(* The pipeline alone: tidy_list on a drawn list and option set, then on   *)
(* its own output.                                                          *)

\* lines an input file can hold
Vocabulary ==
    { << >>,                              \* a blank line
      << Chr.a >>,                        \* "a"
      << Chr.A >>,                        \* "A"
      << Chr.a, Chr.b >>,                 \* "ab"
      << Chr.b >>,                        \* "b"
      << Chr.sp, Chr.a >>,                \* " a"
      << Chr.b, Chr.d1 >>,                \* "b1"
      << Chr.b, Chr.tab, Chr.a >> }       \* "b<tab>a"

\* lines a reject file can hold
RejectWords == { << Chr.a >>, << Chr.a, Chr.b >>, << Chr.b >> }

InitTidy ==
    /\ pc = "tidy"
    /\ list \in SeqsUpTo(Vocabulary, MaxListLen)
    /\ to_lowercase \in BOOLEAN
    /\ should_remove_prefix_words \in BOOLEAN
    /\ should_remove_integers \in BOOLEAN
    /\ should_remove_through_first_tab \in BOOLEAN
    /\ reject_list \in {None} \cup { Some(r) : r \in SeqsUpTo(RejectWords, MaxRejectLen) }
    /\ sort_alphabetically \in BOOLEAN
    /\ take_first = None
    /\ length_to_whittle_to = None
    /\ our_starting_point = None
    /\ this_list_length = 0
    /\ tidied_list = << >>
    /\ previous_list = << >>
    /\ tidy_calls = 0
    /\ exit_code = None
    /\ outcome = "running"
    /\ printed = None
    /\ line = << >>
    /\ line_out = None
    /\ positions = << >>

\* tidy_list(list, ...)
Tidy ==
    /\ pc = "tidy"
    /\ tidied_list' = tidy_list(list, to_lowercase, should_remove_prefix_words,
                                should_remove_integers, should_remove_through_first_tab,
                                reject_list)
    /\ tidy_calls' = 1
    /\ pc' = "tidied"
    /\ UNCHANGED << list, options, take_first, whittle_state, previous_list,
                    exit_code, outcome, printed, tab_state >>

\* tidy_list(tidied_list, ...): the same options, on the output of the first call
Retidy ==
    /\ pc = "tidied"
    /\ previous_list' = tidied_list
    /\ tidied_list' = tidy_list(tidied_list, to_lowercase, should_remove_prefix_words,
                                should_remove_integers, should_remove_through_first_tab,
                                reject_list)
    /\ tidy_calls' = 2
    /\ pc' = "retidied"
    /\ UNCHANGED << list, options, take_first, whittle_state,
                    exit_code, outcome, printed, tab_state >>

NextTidy == Tidy \/ Retidy

SpecTidy == InitTidy /\ [][NextTidy]_vars

-----------------------------------------------------------------------------
(* Properties of the pipeline *)

Tidied == pc \in {"tidied", "retidied"}

NoEmptyEntry(l) == \A i \in 1..Len(l) : l[i] # << >>

NoEqualEntries(l) == \A i, j \in 1..Len(l) : i # j => l[i] # l[j]

PrefixFree(l) ==
    \A i, j \in 1..Len(l) : (i # j /\ l[i] # l[j]) => ~starts_with(l[j], l[i])

StrictlyAscending(l) == \A i \in 1..(Len(l) - 1) : StrLess(l[i], l[i + 1])

Entries(l) == { l[i] : i \in 1..Len(l) }

\* what stages 1-3 and 6 of tidy_list make of one entry under the drawn options
CleanedEntry(w) ==
    LET w1 == IF should_remove_through_first_tab THEN remove_through_first_tab(w) ELSE w
        w2 == IF should_remove_integers THEN remove_integers(w1) ELSE w1
        w3 == trim_end(trim_start(w2))
    IN  IF to_lowercase THEN to_ascii_lowercase(w3) ELSE w3

\* the index in the input of the first entry that becomes o (0: none does)
FirstOccurrence(o, input) ==
    IF \E k \in 1..Len(input) : CleanedEntry(input[k]) = o
    THEN CHOOSE k \in 1..Len(input) :
            /\ CleanedEntry(input[k]) = o
            /\ \A m \in 1..(k - 1) : CleanedEntry(input[m]) # o
    ELSE 0

InFirstOccurrenceOrder(out, input) ==
    \A i, j \in 1..Len(out) :
        i < j => FirstOccurrence(out[i], input) < FirstOccurrence(out[j], input)

\* C3: tidy_list run with the same options on its own output returns that
\* same output.
C3_TidyIdempotent ==
    pc = "retidied" => tidied_list = previous_list

\* C4: the output of tidy_list has no empty entry and no two equal entries,
\* for every input and option combination.
C4_NoBlankNoDuplicate ==
    Tidied => (NoEmptyEntry(tidied_list) /\ NoEqualEntries(tidied_list))

\* a two-line input whose lines differ and are not blank, yet clean to one word
C4_Witness ==
    /\ pc = "tidied"
    /\ Len(list) = 2
    /\ list[1] # list[2]
    /\ NoEmptyEntry(list)
    /\ Len(tidied_list) = 1

\* C5: with should_remove_prefix_words, no entry of the output is a literal
\* character-prefix of a different entry of the output.
C5_PrefixFree ==
    (Tidied /\ should_remove_prefix_words) => PrefixFree(tidied_list)

\* "a" and "ab" went in, prefix removal was on, and only "ab" came out
C5_Witness ==
    /\ pc = "tidied"
    /\ should_remove_prefix_words
    /\ Entries(list) = { << Chr.a >>, << Chr.a, Chr.b >> }
    /\ tidied_list = << << Chr.a, Chr.b >> >>

\* C6: with a reject list, no entry of the output equals an entry of the
\* reject list, whatever the other options (to_lowercase included).
C6_RejectsExcluded ==
    (Tidied /\ IsSome(reject_list)) =>
        Entries(tidied_list) \cap Entries(Unwrap(reject_list)) = {}

\* C7: with sorting enabled, the output is strictly ascending in
\* lexicographic code-point order.
C7_StrictlyAscending ==
    (Tidied /\ sort_alphabetically) => StrictlyAscending(tidied_list)

\* the input came in descending order and both entries survived
C7_Witness ==
    /\ pc = "tidied"
    /\ sort_alphabetically
    /\ Len(list) = 2
    /\ StrLess(list[2], list[1])
    /\ Len(tidied_list) = 2

\* C8: with sort_alphabetically false, the surviving entries appear in the
\* order of their first occurrence in the input, not in sorted order.
C8_NoSortKeepsInputOrder ==
    (pc = "tidied" /\ ~sort_alphabetically) =>
        InFirstOccurrenceOrder(tidied_list, list)

-----------------------------------------------------------------------------
(* remove_through_first_tab alone, on a drawn line *)

TabAlphabet == { Chr.tab, Chr.a, Chr.b }

InitTab ==
    /\ pc = "tab"
    /\ line \in SeqsUpTo(TabAlphabet, MaxTabWordLen)
    /\ line_out = None
    /\ positions = << >>
    /\ list = << >>
    /\ to_lowercase = FALSE
    /\ should_remove_prefix_words = FALSE
    /\ should_remove_integers = FALSE
    /\ should_remove_through_first_tab = TRUE
    /\ reject_list = None
    /\ sort_alphabetically = TRUE
    /\ take_first = None
    /\ length_to_whittle_to = None
    /\ our_starting_point = None
    /\ this_list_length = 0
    /\ tidied_list = << >>
    /\ previous_list = << >>
    /\ tidy_calls = 0
    /\ exit_code = None
    /\ outcome = "running"
    /\ printed = None

\* |w| remove_through_first_tab(w.to_string())
StripTab ==
    /\ pc = "tab"
    /\ line_out' = Some(remove_through_first_tab(line))
    /\ pc' = "tab_done"
    /\ UNCHANGED << line, positions, list, options, take_first, whittle_state,
                    tidied_list, previous_list, tidy_calls, exit_code, outcome, printed >>

NextTab == StripTab

SpecTab == InitTab /\ [][NextTab]_vars

\* the text that follows the first tab of l
AfterFirstTab(l) ==
    LET first == CHOOSE i \in 1..Len(l) :
                     l[i] = Chr.tab /\ \A j \in 1..(i - 1) : l[j] # Chr.tab
    IN  SubSeq(l, first + 1, Len(l))

\* C10: an entry with a tab is replaced by exactly the text after its first
\* tab (later tabs and the text after them kept); an entry without a tab is
\* unchanged.
C10_KeepsAllAfterFirstTab ==
    pc = "tab_done" =>
        Unwrap(line_out) = (IF ContainsTab(line) THEN AfterFirstTab(line) ELSE line)

-----------------------------------------------------------------------------
(* src/main.rs: main *)

\* lines of the inputted word list
InputWords == { << Chr.a >>, << Chr.a, Chr.b >>, << Chr.b >> }

Min(x, y) == IF x <= y THEN x ELSE y

\* (length_to_whittle_to as f64 * 1.4) as usize; equal to this for targets below 45
DefaultStartingPoint(T) == (T * 14) \div 10

\* length_to_whittle_to > inputted_word_list.len(), admitting one word too many
TargetTooLargeByTwo(T, inputted_word_list) == T > Len(inputted_word_list) + 1

\* length_to_whittle_to > inputted_word_list.len()
TargetTooLarge(T, inputted_word_list) == T > Len(inputted_word_list)

\* the request's take_first, applied to its list before the pipeline runs
TakeFirst(lst, n) == IF IsSome(n) THEN SubSeq(lst, 1, Min(Unwrap(n), Len(lst))) ELSE lst

\* tidy_list(this_tidy_request.clone())
tidy_list_of_request ==
    tidy_list(TakeFirst(list, take_first), to_lowercase, should_remove_prefix_words,
              should_remove_integers, should_remove_through_first_tab, reject_list)

\* the next guess: the old one scaled by target/length (doubled when the
\* length is 0), kept within 1..N
get_new_starting_point_guess(P, L, T, N) ==
    LET scaled == IF L = 0 THEN 2 * P ELSE (P * T) \div L
    IN  IF scaled < 1 THEN 1 ELSE IF scaled > N THEN N ELSE scaled

Init ==
    /\ pc = "start"
    /\ list \in SeqsUpTo(InputWords, MaxInputLen)
    /\ to_lowercase \in BOOLEAN
    /\ should_remove_prefix_words \in BOOLEAN
    /\ should_remove_integers = FALSE
    /\ should_remove_through_first_tab = FALSE
    /\ reject_list \in { None, Some(<< << Chr.b >> >>) }
    /\ sort_alphabetically = TRUE
    /\ take_first = None
    /\ length_to_whittle_to = None
    /\ our_starting_point = None
    /\ this_list_length = 0
    /\ tidied_list = << >>
    /\ previous_list = << >>
    /\ tidy_calls = 0
    /\ exit_code = None
    /\ outcome = "running"
    /\ printed = None
    /\ line = << >>
    /\ line_out = None
    /\ positions = << >>

\* an exit that reports success whatever the code asked for
Exit_with_status_zero(code, why) ==
    /\ pc' = "exited"
    /\ exit_code' = Some(0)
    /\ outcome' = why

\* process::exit(code), or the return from main
Exit(code, why) ==
    /\ pc' = "exited"
    /\ exit_code' = Some(code)
    /\ outcome' = why

CheckDiceSides ==
    /\ pc = "start"
    /\ \E valid \in BOOLEAN :
          IF valid
          THEN pc' = "check_truncation" /\ UNCHANGED << exit_code, outcome >>
          ELSE Exit(1, "InvalidDiceSides")
    /\ UNCHANGED << list, options, take_first, whittle_state, tidied_list, previous_list,
                    tidy_calls, printed, tab_state >>

CheckTruncationOptions ==
    /\ pc = "check_truncation"
    /\ \E valid \in BOOLEAN :
          IF valid
          THEN pc' = "check_output" /\ UNCHANGED << exit_code, outcome >>
          ELSE Exit(1, "InvalidTruncationOptions")
    /\ UNCHANGED << list, options, take_first, whittle_state, tidied_list, previous_list,
                    tidy_calls, printed, tab_state >>

\* the output file exists and --force was not given: main returns
CheckOutputFile ==
    /\ pc = "check_output"
    /\ \E exists_unforced \in BOOLEAN :
          IF exists_unforced
          THEN Exit(0, "OutputFileExists")
          ELSE pc' = "make_request" /\ UNCHANGED << exit_code, outcome >>
    /\ UNCHANGED << list, options, take_first, whittle_state, tidied_list, previous_list,
                    tidy_calls, printed, tab_state >>

\* let mut this_tidy_request = TidyRequest { ..., take_first: opt.take_first, ... }
MakeRequest ==
    /\ pc = "make_request"
    /\ take_first' \in {None} \cup { Some(n) : n \in 0..MaxInputLen }
    /\ pc' = "check_ignore"
    /\ UNCHANGED << list, options, whittle_state, tidied_list, previous_list,
                    tidy_calls, exit_code, outcome, printed, tab_state >>

\* other_option: one of the options of the check that the model does not hold
CheckIgnoreOptions ==
    /\ pc = "check_ignore"
    /\ \E after \in BOOLEAN, before \in BOOLEAN, other_option \in BOOLEAN :
          LET incompatible == \/ to_lowercase
                              \/ should_remove_prefix_words
                              \/ should_remove_integers
                              \/ should_remove_through_first_tab
                              \/ other_option
          IN  IF after /\ before
              THEN Exit(1, "IgnoreBothSides")
              ELSE IF (after \/ before) /\ incompatible
              THEN Exit(1, "IgnoreIncompatible")
              ELSE pc' = "parse_whittle" /\ UNCHANGED << exit_code, outcome >>
    /\ UNCHANGED << list, options, take_first, whittle_state, tidied_list, previous_list,
                    tidy_calls, printed, tab_state >>

\* opt.whittle_to: None, "T" or "T,guess"
WhittleArgs ==
    {None} \cup { Some(<< T, g >>) : T \in 0..(MaxInputLen + 1),
                                     g \in {None} \cup { Some(n) : n \in 0..(MaxInputLen + 1) } }

ParseWhittle ==
    /\ pc = "parse_whittle"
    /\ \E whittle_to \in WhittleArgs :
          IF ~IsSome(whittle_to)
          THEN /\ pc' = "tidy_once"
               /\ UNCHANGED << take_first, whittle_state, exit_code, outcome >>
          ELSE LET T == Unwrap(whittle_to)[1]
                   given == Unwrap(whittle_to)[2]
                   guess == IF IsSome(given) THEN Unwrap(given) ELSE DefaultStartingPoint(T)
                   starting_point == IF guess > Len(list) THEN Len(list) ELSE guess
               IN  /\ length_to_whittle_to' = Some(T)
                   /\ IF TargetTooLarge(T, list)
                      THEN /\ Exit(1, "TargetUnreachable")
                           /\ UNCHANGED << take_first, our_starting_point, this_list_length >>
                      ELSE /\ take_first' = Some(starting_point)
                           /\ our_starting_point' = Some(starting_point)
                           /\ pc' = "whittle"
                           /\ UNCHANGED << this_list_length, exit_code, outcome >>
    /\ UNCHANGED << list, options, tidied_list, previous_list, tidy_calls, printed,
                    tab_state >>

\* while this_list_length != our_length_to_whittle_to: the condition holds
WhittleContinue ==
    /\ pc = "whittle"
    /\ this_list_length # Unwrap(length_to_whittle_to)
    /\ pc' = "whittle_body"
    /\ UNCHANGED << list, options, take_first, whittle_state, tidied_list, previous_list,
                    tidy_calls, exit_code, outcome, printed, tab_state >>

\* one pass of the loop body, back to the loop condition
WhittleIteration ==
    /\ pc = "whittle_body"
    /\ pc' = "whittle"
    /\ tidied_list' = tidy_list_of_request
    /\ this_list_length' = Len(tidied_list')
    /\ our_starting_point' =
          Some(get_new_starting_point_guess(Unwrap(our_starting_point), this_list_length',
                                            Unwrap(length_to_whittle_to), Len(list)))
    /\ tidy_calls' = IF tidy_calls = 0 THEN 1 ELSE 2
    /\ UNCHANGED << list, options, take_first, length_to_whittle_to, previous_list,
                    exit_code, outcome, printed, tab_state >>

\* the loop condition fails: this_tidied_list is the result
WhittleExit ==
    /\ pc = "whittle"
    /\ this_list_length = Unwrap(length_to_whittle_to)
    /\ pc' = "print"
    /\ UNCHANGED << list, options, take_first, whittle_state, tidied_list, previous_list,
                    tidy_calls, exit_code, outcome, printed, tab_state >>

\* (_, _) => tidy_list(this_tidy_request)
TidyOnce ==
    /\ pc = "tidy_once"
    /\ tidied_list' = tidy_list_of_request
    /\ tidy_calls' = 1
    /\ pc' = "print"
    /\ UNCHANGED << list, options, take_first, whittle_state, previous_list,
                    exit_code, outcome, printed, tab_state >>

\* if !opt.dry_run { print_list_to_file / println! }, then main returns
PrintList ==
    /\ pc = "print"
    /\ \E dry_run \in BOOLEAN :
          printed' = IF dry_run THEN None ELSE Some(tidied_list)
    /\ pc' = "done"
    /\ exit_code' = Some(0)
    /\ outcome' = "Done"
    /\ UNCHANGED << list, options, take_first, whittle_state, tidied_list, previous_list,
                    tidy_calls, tab_state >>

Next ==
    \/ CheckDiceSides
    \/ CheckTruncationOptions
    \/ CheckOutputFile
    \/ MakeRequest
    \/ CheckIgnoreOptions
    \/ ParseWhittle
    \/ WhittleContinue
    \/ WhittleIteration
    \/ WhittleExit
    \/ TidyOnce
    \/ PrintList

Spec == Init /\ [][Next]_vars

\* main runs on one thread and never waits: a step that can be taken is taken
FairSpec == Spec /\ WF_vars(Next)

-----------------------------------------------------------------------------
(* Properties of main *)

Target == Unwrap(length_to_whittle_to)

\* the longest output tidy_list gives on a prefix of the input, under the run's options
MaxAchievableLength ==
    LET lengths == { Len(tidy_list(SubSeq(list, 1, k), to_lowercase,
                                   should_remove_prefix_words, should_remove_integers,
                                   should_remove_through_first_tab, reject_list))
                     : k \in 0..Len(list) }
    IN  CHOOSE m \in lengths : \A n \in lengths : n <= m

DistinctWords(l) == Cardinality(Entries(l))

\* C1: for a target no greater than the longest output any input prefix
\* gives, the whittle loop eventually exits and the list it returns has
\* exactly that many entries.
C1_WhittleExactness ==
    (pc = "whittle" /\ Target <= MaxAchievableLength)
        ~> (pc \in {"print", "done"} /\ IsSome(length_to_whittle_to)
                                      /\ Len(tidied_list) = Target)

\* C2: the whittle loop always terminates: it ends converged or with an
\* explicit NonConvergence outcome, and never iterates forever.
C2_WhittleTerminates ==
    (pc = "whittle") ~> (pc \in {"print", "done"} \/ outcome = "NonConvergence")

\* C9 as claimed: a target greater than the number of distinct words of the
\* input fails with the unreachable-target error before any tidy_list call.
C9_UnreachableAboveDistinctWords ==
    (IsSome(length_to_whittle_to) /\ Target > DistinctWords(list)) =>
        (tidy_calls = 0 /\ outcome = "TargetUnreachable")

\* C9, amended: a target greater than the number of entries of the inputted
\* word list (every line counted) ends the run at the whittle-target check
\* with exit status 1, before any tidy_list call.
C9_UnreachableAboveInputLength ==
    (IsSome(length_to_whittle_to) /\ Target > Len(list)) =>
        /\ tidy_calls = 0
        /\ pc = "exited"
        /\ outcome = "TargetUnreachable"
        /\ exit_code = Some(1)

\* a non-empty input and a target one above its length: the run ended there
C9_Witness ==
    /\ IsSome(length_to_whittle_to)
    /\ Len(list) >= 1
    /\ Target = Len(list) + 1
    /\ outcome = "TargetUnreachable"
    /\ tidy_calls = 0

-----------------------------------------------------------------------------
(* main from the parsing of the whittle target on: the validations passed, *)
(* opt.take_first was not given.  The inputted list is long enough for the *)
(* default starting point of a target to differ from the target.           *)

\* lines of the inputted word list, in ascending order
WhittleWords ==
    { << Chr.a >>, << Chr.a, Chr.b >>, << Chr.b >>, << Chr.b, Chr.a >> }

InitWhittle ==
    /\ pc = "parse_whittle"
    /\ list \in SeqsUpTo(WhittleWords, MaxWhittleLen)
    /\ to_lowercase = FALSE
    /\ should_remove_prefix_words \in BOOLEAN
    /\ should_remove_integers = FALSE
    /\ should_remove_through_first_tab = FALSE
    /\ reject_list \in { None, Some(<< << Chr.b >> >>) }
    /\ sort_alphabetically = TRUE
    /\ take_first = None
    /\ length_to_whittle_to = None
    /\ our_starting_point = None
    /\ this_list_length = 0
    /\ tidied_list = << >>
    /\ previous_list = << >>
    /\ tidy_calls = 0
    /\ exit_code = None
    /\ outcome = "running"
    /\ printed = None
    /\ line = << >>
    /\ line_out = None
    /\ positions = << >>

NextWhittle ==
    \/ ParseWhittle
    \/ WhittleContinue
    \/ WhittleIteration
    \/ WhittleExit
    \/ TidyOnce
    \/ PrintList

SpecWhittle == InitWhittle /\ [][NextWhittle]_vars

\* no stage of the request removes an entry of a list of unique non-blank words
NoRemovalStages ==
    /\ ~to_lowercase
    /\ ~should_remove_prefix_words
    /\ ~should_remove_integers
    /\ ~should_remove_through_first_tab
    /\ reject_list = None

\* the loop runs from the default starting point of its target
FromDefaultGuess ==
    take_first = Some(Min(DefaultStartingPoint(Target), Len(list)))

\* C11: on a pre-sorted input of unique non-blank words, with no removal
\* stage and the default starting guess, the first pipeline run of the
\* whittle loop already has the target length: the loop ends after it and
\* returns the first T sorted words.
C11_ConvergesInOneRun ==
    ( /\ pc = "whittle"
      /\ tidy_calls = 1
      /\ StrictlyAscending(list)
      /\ NoEmptyEntry(list)
      /\ NoRemovalStages
      /\ FromDefaultGuess )
        => ( /\ this_list_length = Target
             /\ tidied_list = SubSeq(list, 1, Target) )

\* C12: every iteration of the whittle loop runs the pipeline on the first P
\* entries of the input, P being the current guess: the request's take_first
\* is the starting point whenever the loop body is entered.
C12_TakeFirstFollowsGuess ==
    pc = "whittle_body" => take_first = our_starting_point

\* the outcomes of the fatal error paths of main
FatalOutcomes ==
    { "InvalidDiceSides", "InvalidTruncationOptions", "IgnoreBothSides",
      "IgnoreIncompatible", "TargetUnreachable" }

\* C14: every fatal error path of main (invalid dice sides, invalid
\* truncation options, both ignore options, an ignore option with an
\* incompatible option, whittle target above the input length) ends the run
\* with a non-zero exit status, before any tidy_list call and with no list
\* written to the output file or stdout.
C14_FatalBeforeTidy ==
    outcome \in FatalOutcomes =>
        /\ pc = "exited"
        /\ IsSome(exit_code)
        /\ Unwrap(exit_code) # 0
        /\ tidy_calls = 0
        /\ printed = None

\* the last of the configuration checks failed: an ignore option met an
\* incompatible one
C14_Witness ==
    /\ outcome = "IgnoreIncompatible"
    /\ pc = "exited"
    /\ exit_code = Some(1)
    /\ tidy_calls = 0
    /\ printed = None

-----------------------------------------------------------------------------
(* remove_prefix_words and remove_by_position alone, on drawn arguments *)

\* entries of the list handed to the two functions
RemovalWords ==
    { << Chr.a >>, << Chr.a, Chr.b >>, << Chr.a, Chr.b, Chr.b >>,
      << Chr.b >>, << Chr.b, Chr.a >> }

InitRemoval ==
    /\ pc = "removal"
    /\ list \in SeqsUpTo(RemovalWords, MaxRemovalLen)
    /\ positions \in SeqsUpTo(0..MaxRemovalLen, MaxPositions)
    /\ to_lowercase = FALSE
    /\ should_remove_prefix_words = TRUE
    /\ should_remove_integers = FALSE
    /\ should_remove_through_first_tab = FALSE
    /\ reject_list = None
    /\ sort_alphabetically = TRUE
    /\ take_first = None
    /\ length_to_whittle_to = None
    /\ our_starting_point = None
    /\ this_list_length = 0
    /\ tidied_list = << >>
    /\ previous_list = << >>
    /\ tidy_calls = 0
    /\ exit_code = None
    /\ outcome = "running"
    /\ printed = None
    /\ line = << >>
    /\ line_out = None

\* remove_prefix_words(list)
RemovePrefixWords ==
    /\ pc = "removal"
    /\ tidied_list' = remove_prefix_words(list)
    /\ pc' = "prefix_done"
    /\ UNCHANGED << list, options, take_first, whittle_state, previous_list, tidy_calls,
                    exit_code, outcome, printed, tab_state >>

\* remove_by_position(positions, list)
RemoveByPosition ==
    /\ pc = "removal"
    /\ tidied_list' = remove_by_position(positions, list)
    /\ pc' = "position_done"
    /\ UNCHANGED << list, options, take_first, whittle_state, previous_list, tidy_calls,
                    exit_code, outcome, printed, tab_state >>

NextRemoval == RemovePrefixWords \/ RemoveByPosition

SpecRemoval == InitRemoval /\ [][NextRemoval]_vars

\* p is a prefix of w and shorter than w
IsProperPrefix(p, w) == Len(p) < Len(w) /\ SubSeq(w, 1, Len(p)) = p

\* the entries of l at the indices (1-based) of keep, in the order of l
EntriesAt(l, keep) ==
    [ k \in 1..Cardinality(keep) |->
        l[CHOOSE i \in keep : Cardinality({ j \in keep : j <= i }) = k] ]

\* the indices of the entries of l that are a proper prefix of no entry of l
NotAPrefixIn(l) ==
    { i \in 1..Len(l) : ~\E j \in 1..Len(l) : IsProperPrefix(l[i], l[j]) }

\* the indices of l (1-based) whose 0-based position is not in ps
NotMarkedIn(l, ps) ==
    { i \in 1..Len(l) : ~\E k \in 1..Len(ps) : ps[k] = i - 1 }

\* C13: remove_prefix_words on a sorted, deduplicated list returns, in their
\* original order, exactly the entries that are a proper literal prefix of
\* no entry of that list: every prefix entry is removed, also one whose
\* longer entry is removed itself, and no other entry is.
C13_SnapshotPrefixRemoval ==
    (pc = "prefix_done" /\ StrictlyAscending(list)) =>
        tidied_list = EntriesAt(list, NotAPrefixIn(list))

\* "a", "ab", "abb": "ab" is removed as a prefix of "abb", and "a" is removed too
C13_Witness ==
    /\ pc = "prefix_done"
    /\ list = << << Chr.a >>, << Chr.a, Chr.b >>, << Chr.a, Chr.b, Chr.b >> >>
    /\ tidied_list = << << Chr.a, Chr.b, Chr.b >> >>

\* C15: remove_by_position(positions, list) returns exactly the entries of
\* list whose index is not in positions, in their original order; a repeated
\* index has no further effect and an index not below the length of the list
\* removes nothing.
C15_RemoveByPositionExact ==
    pc = "position_done" =>
        tidied_list = EntriesAt(list, NotMarkedIn(list, positions))

\* the same index twice, on a list of three entries: one entry was removed
C15_Witness ==
    /\ pc = "position_done"
    /\ Len(list) = 3
    /\ positions = << 1, 1 >>
    /\ tidied_list = << list[1], list[3] >>

-----------------------------------------------------------------------------
(* The output length of tidy_list along the prefixes of its input *)

\* the length of what tidy_list returns on the first k entries of the input,
\* under the drawn options
OutputLengthOnFirst(k) ==
    Len(tidy_list(SubSeq(list, 1, k), to_lowercase, should_remove_prefix_words,
                  should_remove_integers, should_remove_through_first_tab, reject_list))

\* C16: for every input and option combination, the output of tidy_list on
\* the first k+1 entries is at least as long as on the first k entries and
\* at most one entry longer; so every length from 0 to the length of the
\* output on the whole input is the output length on some prefix.
C16_LengthMonotoneInPrefix ==
    pc = "tidied" =>
        /\ Len(tidied_list) = OutputLengthOnFirst(Len(list))
        /\ \A k \in 0..(Len(list) - 1) :
              /\ OutputLengthOnFirst(k) <= OutputLengthOnFirst(k + 1)
              /\ OutputLengthOnFirst(k + 1) <= OutputLengthOnFirst(k) + 1
        /\ \A n \in 0..Len(tidied_list) :
              \E k \in 0..Len(list) : OutputLengthOnFirst(k) = n

\* prefix removal on, "a" then "ab": the second entry replaces the first in
\* the output, whose length stays 1
C16_Witness ==
    /\ pc = "tidied"
    /\ should_remove_prefix_words
    /\ list = << << Chr.a >>, << Chr.a, Chr.b >> >>
    /\ OutputLengthOnFirst(1) = 1
    /\ tidied_list = << << Chr.a, Chr.b >> >>

====
